---------------------------- MODULE Spec2Model ----------------------------
(***************************************************************************)
(* Forensic DNA matching system: the Tanabe similarity scorer, the tier    *)
(* classifier and the ranking calls of src/matcher.py (DNAMatcher) and     *)
(* src/app.py (the /match and /api/crime-scene-match handlers), with the   *)
(* in-memory DATABASE they read and the logs they append to; the handlers  *)
(* that fill the store (/generate, /upload, /api/import-database); and     *)
(* add_notification, alone and under concurrent requests.                  *)
(*                                                                         *)
(* Scores and thresholds are Python floats with at most 4 decimals         *)
(* (round(x, 4)); they are modelled as integers counting ten-thousandths:  *)
(* 1.0 is 10000, 0.95 is 9500, 0.80 is 8000.                               *)
(***************************************************************************)
EXTENDS Integers, Sequences, FiniteSets, TLC

VARIABLES
    profiles,        \* DATABASE['profiles']       (src/app.py:15)
    encrypted_profiles, \* DATABASE['encrypted_profiles'] (src/app.py:16)
    users,           \* DATABASE['users']          (src/app.py:19)
    match_results,   \* DATABASE['match_results']  (src/app.py:17)
    notifications,   \* DATABASE['notifications']  (src/app.py:18)
    matcher,         \* the DNAMatcher object, if one was built: its threshold
                     \* and match_history          (src/matcher.py:15-16)
    last,            \* what the last handler call was given and returned
    threads,         \* the requests in flight inside add_notification: each
                     \* one's position and the entry it has built
    probe            \* inputs and outputs of a direct call of a pure function

vars == <<profiles, encrypted_profiles, users, match_results, notifications,
          matcher, last, threads, probe>>

(***************************************************************************)
(* Bounds of the model.                                                    *)
(***************************************************************************)
MaxAlleles == 3      \* allele values enumerated per locus for the scorer
MaxStore == 2        \* profiles in a small store
MaxCalls == 2        \* ranking calls made on one store
BulkExtra == 2       \* a bulk database holds up to TOP_SLICE + BulkExtra profiles
BulkCalls == 1       \* ranking calls made on one bulk database

(***************************************************************************)
(* Program constants, in ten-thousandths where they are scores.            *)
(***************************************************************************)
SCALE == 10000               \* round(score, 4)
DEFINITE == 9500             \* score >= 0.95
PARTIAL == 5000              \* score >= 0.50
CRIME_PROBABLE == 8000       \* crime_scene_match: score >= 0.80
MATCHER_DEFAULT == 8000      \* DNAMatcher(threshold=0.80)
APP_DEFAULT == 7000          \* request.form.get('threshold', 0.70)
TOP_SLICE == 10              \* results[:10]
DEFAULT_TOP_N == 10          \* match_against_database(..., top_n=10)
SELF_SCORE == 10000          \* score = 1.0 when target id == query id
MAX_NOTIFICATIONS == 20      \* len(DATABASE['notifications']) > 20

(***************************************************************************)
(* Profiles.  A profile is a record [id, region, markers]; markers maps    *)
(* some loci to the list of the profile's alleles there.                   *)
(***************************************************************************)
Loci == {"D3S1358", "D5S818"}

AlleleBase(locus) == IF locus = "D3S1358" THEN 14 ELSE 11

AllelesAt(locus) == AlleleBase(locus) .. (AlleleBase(locus) + MaxAlleles - 1)

\* set(alleles): a Python list as the set of its elements
SetOf(list) == {list[i] : i \in DOMAIN list}

RECURSIVE SumOver(_, _)
\* the sum of f[x] over the finite set S
SumOver(S, f) ==
    IF S = {} THEN 0
    ELSE LET x == CHOOSE y \in S : TRUE
         IN  f[x] + SumOver(S \ {x}, f)

(***************************************************************************)
(* round(num / den, 4) as Python computes it: the quotient correctly       *)
(* rounded to 4 decimals, an exact tie going to the even neighbour,        *)
(* in ten-thousandths.  num >= 0, den > 0.                                 *)
(***************************************************************************)
Round4(num, den) ==
    LET q == (num * SCALE) \div den
        r == (num * SCALE) % den
    IN  IF 2 * r > den THEN q + 1
        ELSE IF 2 * r < den THEN q
        ELSE IF q % 2 = 0 THEN q ELSE q + 1

(***************************************************************************)
(* app.calculate_tanabe_score: the loop over profile1['markers'].          *)
(***************************************************************************)
RECURSIVE AppTanabeLoop(_, _, _, _, _)
AppTanabeLoop(todo, m1, m2, shared_alleles, total_alleles) ==
    IF todo = {} THEN <<shared_alleles, total_alleles>>
    ELSE LET locus == CHOOSE l \in todo : TRUE
             rest == todo \ {locus}
         IN  IF locus \in DOMAIN m2
             THEN LET set1 == SetOf(m1[locus])
                      set2 == SetOf(m2[locus])
                      shared == Cardinality(set1 \cap set2)
                  IN  AppTanabeLoop(rest, m1, m2, shared_alleles + shared,
                          total_alleles + Cardinality(set1) + Cardinality(set2))
             ELSE AppTanabeLoop(rest, m1, m2, shared_alleles, total_alleles)

\* a scorer that counts list lengths, not distinct alleles, in the total
AppTanabeListTotals(profile1, profile2) ==
    LET m1 == profile1.markers
        m2 == profile2.markers
        common == DOMAIN m1 \cap DOMAIN m2
        sh == SumOver(common, [l \in common |-> Cardinality(SetOf(m1[l]) \cap SetOf(m2[l]))])
        tot == SumOver(common, [l \in common |-> Len(m1[l]) + Len(m2[l])])
    IN  IF tot = 0 THEN 0 ELSE Round4(2 * sh, tot)

\* a scorer that counts profile1's alleles twice in the total
AppTanabeOneSided(profile1, profile2) ==
    LET m1 == profile1.markers
        m2 == profile2.markers
        common == DOMAIN m1 \cap DOMAIN m2
        sh == SumOver(common, [l \in common |-> Cardinality(SetOf(m1[l]) \cap SetOf(m2[l]))])
        tot == SumOver(common, [l \in common |-> 2 * Cardinality(SetOf(m1[l]))])
    IN  IF tot = 0 THEN 0 ELSE Round4(2 * sh, tot)

\* a scorer that reports 1.0 when no allele was counted
AppTanabeNoGuardValue(profile1, profile2) ==
    LET m1 == profile1.markers
        m2 == profile2.markers
        common == DOMAIN m1 \cap DOMAIN m2
        sh == SumOver(common, [l \in common |-> Cardinality(SetOf(m1[l]) \cap SetOf(m2[l]))])
        tot == SumOver(common, [l \in common |-> Cardinality(SetOf(m1[l])) + Cardinality(SetOf(m2[l]))])
    IN  IF tot = 0 THEN SCALE ELSE Round4(2 * sh, tot)

AppTanabe(profile1, profile2) ==
    LET acc == AppTanabeLoop(DOMAIN profile1.markers, profile1.markers,
                             profile2.markers, 0, 0)
        shared_alleles == acc[1]
        total_alleles == acc[2]
    IN  IF total_alleles = 0 THEN 0
        ELSE Round4(2 * shared_alleles, total_alleles)

(***************************************************************************)
(* DNAMatcher.calculate_tanabe_score: the same loop, which also fills      *)
(* loci_matches; the result is (score, loci_matches), kept here as the     *)
(* score and the loci recorded.                                            *)
(***************************************************************************)
RECURSIVE MatcherTanabeLoop(_, _, _, _, _, _)
MatcherTanabeLoop(todo, m1, m2, shared_alleles, total_alleles, loci_matches) ==
    IF todo = {} THEN <<shared_alleles, total_alleles, loci_matches>>
    ELSE LET locus == CHOOSE l \in todo : TRUE
             rest == todo \ {locus}
         IN  IF locus \notin DOMAIN m2
             THEN MatcherTanabeLoop(rest, m1, m2, shared_alleles, total_alleles,
                                    loci_matches)
             ELSE LET alleles1 == SetOf(m1[locus])
                      alleles2 == SetOf(m2[locus])
                      shared == Cardinality(alleles1 \cap alleles2)
                  IN  MatcherTanabeLoop(rest, m1, m2, shared_alleles + shared,
                          total_alleles + Cardinality(alleles1) + Cardinality(alleles2),
                          loci_matches \cup {locus})

\* a matcher scorer that counts list lengths, not distinct alleles
MatcherTanabeListTotals(profile1, profile2) ==
    [score |-> AppTanabeListTotals(profile1, profile2),
     loci |-> DOMAIN profile1.markers \cap DOMAIN profile2.markers]

\* a matcher scorer that cuts the quotient to 4 decimals and does not round it
MatcherTanabeTruncated(profile1, profile2) ==
    LET acc == MatcherTanabeLoop(DOMAIN profile1.markers, profile1.markers,
                                 profile2.markers, 0, 0, {})
    IN  [score |-> IF acc[2] = 0 THEN 0 ELSE (2 * acc[1] * SCALE) \div acc[2],
         loci |-> acc[3]]

MatcherTanabe(profile1, profile2) ==
    LET acc == MatcherTanabeLoop(DOMAIN profile1.markers, profile1.markers,
                                 profile2.markers, 0, 0, {})
    IN  [score |-> IF acc[2] = 0 THEN 0 ELSE Round4(2 * acc[1], acc[2]),
         loci |-> acc[3]]


(***************************************************************************)
(* The profiles the scorer is called on directly: every marker mapping     *)
(* over a subset of Loci with two alleles (in either order, equal or not)  *)
(* at each locus.                                                          *)
(***************************************************************************)
PairsAt(locus) == AllelesAt(locus) \X AllelesAt(locus)

AllPairs == UNION {PairsAt(l) : l \in Loci}

MarkerMaps ==
    UNION {{m \in [D -> AllPairs] : \A l \in D : m[l] \in PairsAt(l)} : D \in SUBSET Loci}

ScoreProfile(tag, m) == [id |-> <<tag, 1>>, region |-> "USA", markers |-> m]

NoProfile == [id |-> <<"none", 0>>, region |-> "none", markers |-> <<>>]

NoProbe ==
    [op |-> "none", p1 |-> NoProfile, p2 |-> NoProfile,
     app_ab |-> 0, app_ba |-> 0, matcher_ab |-> 0, matcher_ba |-> 0,
     loci_ab |-> {}, score |-> 0, threshold |-> 0,
     matcher_tier |-> "none", app_tier |-> "none", crime_tier |-> "none"]

\* no DNAMatcher object has been built
NoMatcher == [built |-> FALSE, threshold |-> 0, match_history |-> <<>>]

NoCall ==
    [op |-> "none", query_id |-> <<"none", 0>>, query |-> NoProfile,
     threshold |-> 0, filter_region |-> FALSE, top_n |-> 0,
     candidates |-> <<>>, kept |-> <<>>, returned |-> <<>>,
     matches_found |-> 0, definite_matches |-> 0, probable_matches |-> 0,
     status |-> 0, seq |-> 0]

\* no request is inside add_notification
NoThreads == <<>>

\* a direct call of both scorers on a pair of profiles, in both orders
ScorePair ==
    /\ probe.op = "none"
    /\ \E m1 \in MarkerMaps, m2 \in MarkerMaps :
         LET a == ScoreProfile("Q", m1)
             b == ScoreProfile("C", m2)
         IN  probe' = [NoProbe EXCEPT
                 !.op = "score", !.p1 = a, !.p2 = b,
                 !.app_ab = AppTanabe(a, b), !.app_ba = AppTanabe(b, a),
                 !.matcher_ab = MatcherTanabe(a, b).score,
                 !.matcher_ba = MatcherTanabe(b, a).score,
                 !.loci_ab = MatcherTanabe(a, b).loci]
    /\ UNCHANGED <<profiles, encrypted_profiles, users, threads,
                   match_results, notifications, matcher, last>>

InitEmpty ==
    /\ profiles = <<>>
    /\ encrypted_profiles = <<>>
    /\ users = <<>>
    /\ threads = NoThreads
    /\ match_results = <<>>
    /\ notifications = <<>>
    /\ matcher = NoMatcher
    /\ last = NoCall
    /\ probe = NoProbe

NextScore == ScorePair

SpecScore == InitEmpty /\ [][NextScore]_vars

(***************************************************************************)
(* Properties of the scorer (checked under SpecScore).                     *)
(***************************************************************************)
CommonLoci(a, b) == DOMAIN a.markers \cap DOMAIN b.markers

SharedSum(a, b) ==
    SumOver(CommonLoci(a, b),
            [l \in CommonLoci(a, b) |->
                Cardinality(SetOf(a.markers[l]) \cap SetOf(b.markers[l]))])

TotalSum(a, b) ==
    SumOver(CommonLoci(a, b),
            [l \in CommonLoci(a, b) |->
                Cardinality(SetOf(a.markers[l])) + Cardinality(SetOf(b.markers[l]))])

ExampleQ == ("D3S1358" :> <<14, 16>>) @@ ("D5S818" :> <<11, 12>>)
ExampleC == ("D3S1358" :> <<14, 16>>) @@ ("D5S818" :> <<11, 13>>)

\* C1: the score of a pair is round(2*shared/total, 4), shared and total summed
\* over the loci present in both profiles only; the pair {D3S1358:[14,16],
\* D5S818:[11,12]} / {D3S1358:[14,16], D5S818:[11,13]} has shared 3, total 8 and
\* scores 0.75.
C1_ScoreFormula ==
    probe.op = "score" =>
        /\ TotalSum(probe.p1, probe.p2) > 0 =>
              /\ probe.app_ab = Round4(2 * SharedSum(probe.p1, probe.p2),
                                       TotalSum(probe.p1, probe.p2))
              /\ probe.matcher_ab = probe.app_ab
        /\ probe.loci_ab = CommonLoci(probe.p1, probe.p2)
        /\ (probe.p1.markers = ExampleQ /\ probe.p2.markers = ExampleC) =>
              /\ SharedSum(probe.p1, probe.p2) = 3
              /\ TotalSum(probe.p1, probe.p2) = 8
              /\ probe.app_ab = 7500
              /\ probe.matcher_ab = 7500

\* the example pair has been scored
C1_Witness ==
    /\ probe.op = "score"
    /\ probe.p1.markers = ExampleQ
    /\ probe.p2.markers = ExampleC
    /\ probe.app_ab = 7500

\* C2: a profile with at least one locus scores 1.0 against itself by the
\* formula, homozygous loci included.
C2_SelfScoreIsOne ==
    (/\ probe.op = "score"
     /\ probe.p1.markers = probe.p2.markers
     /\ DOMAIN probe.p1.markers # {}) =>
        /\ probe.app_ab = SCALE
        /\ probe.matcher_ab = SCALE

\* a profile with a homozygous locus has been scored against itself
C2_Witness ==
    /\ probe.op = "score"
    /\ probe.p1.markers = probe.p2.markers
    /\ \E l \in DOMAIN probe.p1.markers : probe.p1.markers[l][1] = probe.p1.markers[l][2]
    /\ probe.app_ab = SCALE

\* C3: score(A, B) = score(B, A).
C3_Symmetric ==
    probe.op = "score" =>
        /\ probe.app_ab = probe.app_ba
        /\ probe.matcher_ab = probe.matcher_ba

\* two profiles with different loci and different numbers of distinct alleles
\* have been scored in both orders, with a score strictly between 0 and 1
C3_Witness ==
    /\ probe.op = "score"
    /\ DOMAIN probe.p1.markers # DOMAIN probe.p2.markers
    /\ \E l \in CommonLoci(probe.p1, probe.p2) :
          Cardinality(SetOf(probe.p1.markers[l])) # Cardinality(SetOf(probe.p2.markers[l]))
    /\ probe.app_ab > 0 /\ probe.app_ab < SCALE
    /\ probe.app_ba = probe.app_ab

\* C4: the score lies in [0.0, 1.0] and is 0.0 when the two profiles have no
\* locus in common.
C4_Range ==
    probe.op = "score" =>
        /\ probe.app_ab \in 0..SCALE
        /\ probe.matcher_ab \in 0..SCALE
        /\ CommonLoci(probe.p1, probe.p2) = {} =>
              (probe.app_ab = 0 /\ probe.matcher_ab = 0)

\* two profiles that both have loci, none in common, have been scored
C4_Witness ==
    /\ probe.op = "score"
    /\ DOMAIN probe.p1.markers # {}
    /\ DOMAIN probe.p2.markers # {}
    /\ CommonLoci(probe.p1, probe.p2) = {}
    /\ probe.app_ab = 0

(***************************************************************************)
(* The three places that turn a score into a match status.                 *)
(***************************************************************************)
\* DNAMatcher.match_single_profile, with self.threshold
MatcherClassify(score, threshold) ==
    IF score >= DEFINITE THEN "DEFINITE MATCH"
    ELSE IF score >= threshold THEN "PROBABLE MATCH"
    ELSE IF score >= PARTIAL THEN "PARTIAL MATCH"
    ELSE "NO MATCH"

\* match_profiles, for a target whose id is not the query id
AppClassify(score, threshold) ==
    IF score >= DEFINITE THEN "DEFINITE MATCH"
    ELSE IF score >= threshold THEN "PROBABLE MATCH"
    ELSE IF score >= PARTIAL THEN "PARTIAL MATCH"
    ELSE "NO MATCH"

\* crime_scene_match: the request carries no threshold, 0.80 is written in
CrimeClassify(score) ==
    IF score >= DEFINITE THEN "DEFINITE MATCH"
    ELSE IF score >= CRIME_PROBABLE THEN "PROBABLE MATCH"
    ELSE IF score >= PARTIAL THEN "POSSIBLE MATCH"
    ELSE "NO MATCH"

ProbeScores ==
    {0, 2999, 3000, 4999, 5000, 6999, 7000, 7500, 7999, 8000, 9499, 9500,
     9899, 9900, 10000}

ProbeThresholds == {3000, 5000, APP_DEFAULT, MATCHER_DEFAULT, 9500, 9900, 12000}

\* one score classified at the three places; the caller's threshold reaches
\* the first two
ClassifyScore ==
    /\ probe.op = "none"
    /\ \E score \in ProbeScores, threshold \in ProbeThresholds :
         probe' = [NoProbe EXCEPT
             !.op = "classify", !.score = score, !.threshold = threshold,
             !.matcher_tier = MatcherClassify(score, threshold),
             !.app_tier = AppClassify(score, threshold),
             !.crime_tier = CrimeClassify(score)]
    /\ UNCHANGED <<profiles, encrypted_profiles, users, threads,
                   match_results, notifications, matcher, last>>

NextClassify == ClassifyScore

SpecClassify == InitEmpty /\ [][NextClassify]_vars

\* the tier of a score under a threshold as the classifier is specified,
\* first match wins, every boundary inclusive
SpecifiedTier(score, threshold) ==
    IF score >= 9500 THEN "DEFINITE"
    ELSE IF score >= threshold THEN "PROBABLE"
    ELSE IF score >= 5000 THEN "PARTIAL"
    ELSE "NONE"

\* the tier a status label stands for; PARTIAL MATCH and POSSIBLE MATCH are
\* two labels of one tier
TierOf(status) ==
    CASE status = "DEFINITE MATCH" -> "DEFINITE"
      [] status = "PROBABLE MATCH" -> "PROBABLE"
      [] status \in {"PARTIAL MATCH", "POSSIBLE MATCH"} -> "PARTIAL"
      [] status = "NO MATCH" -> "NONE"
      [] OTHER -> "OTHER"

\* C5: at each of the three classification sites the tier of a score under the
\* caller's threshold is DEFINITE from 0.95, else PROBABLE from the threshold,
\* else PARTIAL/POSSIBLE from 0.50, else NO MATCH, boundaries inclusive, and
\* so the three sites agree for every score and threshold.
C5_SitesClassifyAlike ==
    probe.op = "classify" =>
        /\ TierOf(probe.matcher_tier) = SpecifiedTier(probe.score, probe.threshold)
        /\ TierOf(probe.app_tier) = SpecifiedTier(probe.score, probe.threshold)
        /\ TierOf(probe.crime_tier) = SpecifiedTier(probe.score, probe.threshold)

(***************************************************************************)
(* Lists.                                                                  *)
(***************************************************************************)
\* list[:n]: the first n elements, all of them when n > len(list); a negative
\* n counts from the end, list[:-1] being the list without its last element
Take(list, n) ==
    LET stop == IF n >= 0 THEN n ELSE Len(list) + n
    IN  SubSeq(list, 1, IF stop < Len(list) THEN stop ELSE Len(list))

\* the score field of a result, whichever handler built it
ScoreOf(r) == IF "score" \in DOMAIN r THEN r.score ELSE r.similarity_score

\* one step of a sort that puts r before the results it ties with
InsertBeforeTies(sorted, r) ==
    LET k == Cardinality({i \in DOMAIN sorted : ScoreOf(sorted[i]) > ScoreOf(r)})
    IN  SubSeq(sorted, 1, k) \o <<r>> \o SubSeq(sorted, k + 1, Len(sorted))

\* results.sort(key=score, reverse=True), one insertion: Python's sort is
\* stable, with reverse=True too, so r goes after every result it ties with
InsertDesc(sorted, r) ==
    LET k == Cardinality({i \in DOMAIN sorted : ScoreOf(sorted[i]) >= ScoreOf(r)})
    IN  SubSeq(sorted, 1, k) \o <<r>> \o SubSeq(sorted, k + 1, Len(sorted))

RECURSIVE SortDesc(_)
SortDesc(results) ==
    IF results = <<>> THEN <<>>
    ELSE InsertDesc(SortDesc(SubSeq(results, 1, Len(results) - 1)),
                    results[Len(results)])

\* the number of results with score >= bound
CountAtLeast(results, bound) ==
    Cardinality({i \in DOMAIN results : ScoreOf(results[i]) >= bound})

(***************************************************************************)
(* add_notification: the entry is numbered with the length of the log,     *)
(* appended, and the oldest entry is dropped once the log is longer than   *)
(* 20.                                                                     *)
(***************************************************************************)
\* add_notification that, on a full log, removes the entry just appended
\* (pop() for pop(0))
AddNotificationPopNewest(log, title, message) ==
    LET notification == [id |-> Len(log), title |-> title, message |-> message]
        appended == Append(log, notification)
    IN  IF Len(appended) > MAX_NOTIFICATIONS
        THEN SubSeq(appended, 1, Len(appended) - 1)
        ELSE appended

\* add_notification(title, message) on the log
AddNotification(log, title, message) ==
    LET notification == [id |-> Len(log), title |-> title, message |-> message]
        appended == Append(log, notification)
    IN  IF Len(appended) > MAX_NOTIFICATIONS THEN Tail(appended) ELSE appended

(***************************************************************************)
(* match_profiles (POST /match).  A result carries idx, the position of    *)
(* its target in DATABASE['profiles'], which the code's dict does not      *)
(* hold; it is there to state the order of results.                        *)
(***************************************************************************)
\* the lookup with the first stored profile as its default, for None
QueryProfileOrFirst(store, query_id) ==
    LET hits == {i \in DOMAIN store : store[i].id = query_id}
    IN  IF hits = {} THEN (IF store = <<>> THEN NoProfile ELSE store[1])
        ELSE store[CHOOSE i \in hits : \A j \in hits : i <= j]

\* next((p for p in DATABASE['profiles'] if p['id'] == query_id), None)
QueryProfile(store, query_id) ==
    LET hits == {i \in DOMAIN store : store[i].id = query_id}
    IN  IF hits = {} THEN NoProfile
        ELSE store[CHOOSE i \in hits : \A j \in hits : i <= j]

\* the loop of match_profiles with the region test left out
RECURSIVE MatchLoopNoRegion(_, _, _, _, _, _)
MatchLoopNoRegion(i, store, query_profile, query_id, threshold, filter_region) ==
    IF i > Len(store) THEN <<>>
    ELSE LET target_profile == store[i]
             self == target_profile.id = query_id
             score == IF self THEN SELF_SCORE
                      ELSE AppTanabe(query_profile, target_profile)
             status == IF self THEN "PERFECT MATCH (SELF)"
                       ELSE AppClassify(score, threshold)
             rest == MatchLoopNoRegion(i + 1, store, query_profile, query_id,
                                       threshold, filter_region)
         IN  IF score >= threshold \/ self
             THEN <<[target_id |-> target_profile.id, score |-> score,
                     status |-> status, region |-> target_profile.region,
                     idx |-> i]>> \o rest
             ELSE rest

RECURSIVE MatchLoop(_, _, _, _, _, _)
MatchLoop(i, store, query_profile, query_id, threshold, filter_region) ==
    IF i > Len(store) THEN <<>>
    ELSE LET target_profile == store[i]
             self == target_profile.id = query_id
             score == IF self THEN SELF_SCORE
                      ELSE AppTanabe(query_profile, target_profile)
             status == IF self THEN "PERFECT MATCH (SELF)"
                       ELSE AppClassify(score, threshold)
             rest == MatchLoop(i + 1, store, query_profile, query_id,
                               threshold, filter_region)
         IN  IF filter_region /\ query_profile.region # target_profile.region
             THEN rest
             ELSE IF score >= threshold \/ self
             THEN <<[target_id |-> target_profile.id, score |-> score,
                     status |-> status, region |-> target_profile.region,
                     idx |-> i]>> \o rest
             ELSE rest

\* match_profiles with matches_found counted in the slice it returns
MatchResponseSliced(store, query_id, threshold, filter_region) ==
    LET query_profile == QueryProfile(store, query_id)
        results == SortDesc(MatchLoop(1, store, query_profile, query_id,
                                      threshold, filter_region))
    IN  [results |-> results,
         matches_found |-> CountAtLeast(Take(results, TOP_SLICE), threshold),
         top |-> Take(results, TOP_SLICE)]

\* what match_profiles computes once the query profile is found: the sorted
\* results, the count it reports and the slice it returns
MatchResponse(store, query_id, threshold, filter_region) ==
    LET query_profile == QueryProfile(store, query_id)
        results == SortDesc(MatchLoop(1, store, query_profile, query_id,
                                      threshold, filter_region))
    IN  [results |-> results,
         matches_found |-> CountAtLeast(results, threshold),
         top |-> Take(results, TOP_SLICE)]

MatchProfiles(query_id, threshold, filter_region) ==
    IF QueryProfile(profiles, query_id) = NoProfile
    THEN /\ last' = [NoCall EXCEPT !.op = "match", !.status = 404,
                        !.query_id = query_id, !.threshold = threshold,
                        !.filter_region = filter_region,
                        !.candidates = profiles, !.seq = last.seq + 1]
         /\ UNCHANGED <<profiles, encrypted_profiles, users, threads,
                        match_results, notifications, matcher, probe>>
    ELSE LET resp == MatchResponse(profiles, query_id, threshold, filter_region)
             match_result == [query_id |-> query_id, threshold |-> threshold,
                              matches_found |-> resp.matches_found,
                              results |-> resp.top]
             matches_count == CountAtLeast(resp.results, threshold)
         IN  /\ match_results' = Append(match_results, match_result)
             /\ notifications' =
                    IF matches_count > 0
                    THEN AddNotification(notifications, "Match Found!", matches_count)
                    ELSE notifications
             /\ last' = [NoCall EXCEPT !.op = "match", !.status = 200,
                            !.query_id = query_id,
                            !.query = QueryProfile(profiles, query_id),
                            !.threshold = threshold,
                            !.filter_region = filter_region,
                            !.top_n = TOP_SLICE,
                            !.candidates = profiles,
                            !.kept = resp.results,
                            !.returned = resp.top,
                            !.matches_found = resp.matches_found,
                            !.seq = last.seq + 1]
             /\ UNCHANGED <<profiles, encrypted_profiles, users, threads,
                            matcher, probe>>

(***************************************************************************)
(* crime_scene_match (POST /api/crime-scene-match): every stored profile   *)
(* is scored and classified, none is filtered out.  The handler also       *)
(* writes the profiles to the database file, which holds no state of the   *)
(* ranking and is left out.                                                *)
(***************************************************************************)
CrimeConfidence(status) ==
    CASE status = "DEFINITE MATCH" -> "VERY HIGH"
      [] status = "PROBABLE MATCH" -> "HIGH"
      [] status = "POSSIBLE MATCH" -> "MEDIUM"
      [] OTHER -> "LOW"

RECURSIVE CrimeLoop(_, _, _)
CrimeLoop(i, store, crime_sample) ==
    IF i > Len(store) THEN <<>>
    ELSE LET profile == store[i]
             score == AppTanabe(crime_sample, profile)
             status == CrimeClassify(score)
         IN  <<[suspect_id |-> profile.id, similarity_score |-> score,
                status |-> status, confidence |-> CrimeConfidence(status),
                region |-> profile.region, idx |-> i]>>
             \o CrimeLoop(i + 1, store, crime_sample)

\* crime_scene_match with the two counts taken in the slice it returns
CrimeResponseSliced(store, crime_sample) ==
    LET results == SortDesc(CrimeLoop(1, store, crime_sample))
        top == Take(results, TOP_SLICE)
    IN  [results |-> results,
         definite_count |-> CountAtLeast(top, DEFINITE),
         probable_count |->
             Cardinality({i \in DOMAIN top :
                 /\ CRIME_PROBABLE <= top[i].similarity_score
                 /\ top[i].similarity_score < DEFINITE}),
         top |-> top]

CrimeResponse(store, crime_sample) ==
    LET results == SortDesc(CrimeLoop(1, store, crime_sample))
    IN  [results |-> results,
         definite_count |-> CountAtLeast(results, DEFINITE),
         probable_count |->
             Cardinality({i \in DOMAIN results :
                 /\ CRIME_PROBABLE <= results[i].similarity_score
                 /\ results[i].similarity_score < DEFINITE}),
         top |-> Take(results, TOP_SLICE)]

\* crime_sample['id'] = 'CRIME_SCENE_' + <time of the request>, if the sample
\* came without an id
CrimeSampleWithId(crime_sample) ==
    IF "id" \in DOMAIN crime_sample THEN crime_sample
    ELSE [f \in DOMAIN crime_sample \cup {"id"} |->
             IF f = "id" THEN <<"CRIME_SCENE", 0>> ELSE crime_sample[f]]

\* crime_scene_match that also notifies when only probable matches were found
CrimeSceneMatchNotifyProbable(crime_sample) ==
    IF "markers" \notin DOMAIN crime_sample
    THEN /\ last' = [NoCall EXCEPT !.op = "crime", !.status = 400,
                        !.query = crime_sample, !.candidates = profiles,
                        !.seq = last.seq + 1]
         /\ UNCHANGED <<profiles, encrypted_profiles, users, threads,
                        match_results, notifications, matcher, probe>>
    ELSE
    LET sample == CrimeSampleWithId(crime_sample)
        resp == CrimeResponse(profiles, sample)
        match_record == [crime_sample_id |-> sample.id,
                         total_profiles_searched |-> Len(profiles),
                         definite_matches |-> resp.definite_count,
                         probable_matches |-> resp.probable_count,
                         top_10_matches |-> resp.top]
    IN  /\ match_results' = Append(match_results, match_record)
        /\ notifications' =
               IF resp.definite_count > 0 \/ resp.probable_count > 0
               THEN AddNotification(notifications, "CRIME SCENE MATCH FOUND!",
                                    resp.definite_count)
               ELSE notifications
        /\ last' = [NoCall EXCEPT !.op = "crime", !.status = 200,
                       !.query_id = sample.id, !.query = sample,
                       !.threshold = CRIME_PROBABLE, !.top_n = TOP_SLICE,
                       !.candidates = profiles,
                       !.kept = resp.results, !.returned = resp.top,
                       !.definite_matches = resp.definite_count,
                       !.probable_matches = resp.probable_count,
                       !.seq = last.seq + 1]
        /\ UNCHANGED <<profiles, encrypted_profiles, users, threads, matcher,
                       probe>>

CrimeSceneMatch(crime_sample) ==
    IF "markers" \notin DOMAIN crime_sample
    THEN /\ last' = [NoCall EXCEPT !.op = "crime", !.status = 400,
                        !.query = crime_sample, !.candidates = profiles,
                        !.seq = last.seq + 1]
         /\ UNCHANGED <<profiles, encrypted_profiles, users, threads,
                        match_results, notifications, matcher, probe>>
    ELSE
    LET sample == CrimeSampleWithId(crime_sample)
        resp == CrimeResponse(profiles, sample)
        match_record == [crime_sample_id |-> sample.id,
                         total_profiles_searched |-> Len(profiles),
                         definite_matches |-> resp.definite_count,
                         probable_matches |-> resp.probable_count,
                         top_10_matches |-> resp.top]
    IN  /\ match_results' = Append(match_results, match_record)
        /\ notifications' =
               IF resp.definite_count > 0
               THEN AddNotification(notifications, "CRIME SCENE MATCH FOUND!",
                                    resp.definite_count)
               ELSE notifications
        /\ last' = [NoCall EXCEPT !.op = "crime", !.status = 200,
                       !.query_id = sample.id, !.query = sample,
                       !.threshold = CRIME_PROBABLE, !.top_n = TOP_SLICE,
                       !.candidates = profiles,
                       !.kept = resp.results, !.returned = resp.top,
                       !.definite_matches = resp.definite_count,
                       !.probable_matches = resp.probable_count,
                       !.seq = last.seq + 1]
        /\ UNCHANGED <<profiles, encrypted_profiles, users, threads, matcher,
                       probe>>

(***************************************************************************)
(* DNAMatcher.match_single_profile and DNAMatcher.match_against_database.  *)
(***************************************************************************)
MatcherConfidence(status) ==
    CASE status = "DEFINITE MATCH" -> "VERY HIGH"
      [] status = "PROBABLE MATCH" -> "HIGH"
      [] status = "PARTIAL MATCH" -> "MEDIUM"
      [] OTHER -> "LOW"

MatchSingleProfile(query_profile, target_profile, threshold) ==
    LET scored == MatcherTanabe(query_profile, target_profile)
        match_status == MatcherClassify(scored.score, threshold)
    IN  [query_id |-> query_profile.id, target_id |-> target_profile.id,
         similarity_score |-> scored.score, match_status |-> match_status,
         confidence |-> MatcherConfidence(match_status),
         threshold |-> threshold, loci_count |-> Cardinality(scored.loci)]

\* the loop of match_against_database; idx, the position of the target in
\* database_profiles, is added to each result to state the order of results
RECURSIVE MatcherLoop(_, _, _, _)
MatcherLoop(i, query_profile, database_profiles, threshold) ==
    IF i > Len(database_profiles) THEN <<>>
    ELSE LET result == MatchSingleProfile(query_profile, database_profiles[i],
                                          threshold)
         IN  <<[f \in DOMAIN result \cup {"idx"} |->
                   IF f = "idx" THEN i ELSE result[f]]>>
             \o MatcherLoop(i + 1, query_profile, database_profiles, threshold)

\* the results of match_against_database at or over the threshold, in order
Matches(results, threshold) ==
    SelectSeq(results, LAMBDA r : r.similarity_score >= threshold)

\* match_history.append(...) skipped when nothing was scored
RecordHistoryUnlessEmpty(history, query_profile, database_profiles, results) ==
    IF results = <<>> THEN history
    ELSE Append(history,
                [query_id |-> query_profile.id,
                 database_size |-> Len(database_profiles),
                 top_score |-> results[1].similarity_score])

\* the history entry with 1.0 as the top score of an empty result list
RecordHistoryDefaultOne(history, query_profile, database_profiles, results) ==
    Append(history,
           [query_id |-> query_profile.id,
            database_size |-> Len(database_profiles),
            top_score |-> IF results # <<>> THEN results[1].similarity_score
                          ELSE SCALE])

\* the history entry with the top score taken from the results that meet the
\* threshold
RecordHistoryTopOfMatches(history, query_profile, database_profiles, results) ==
    LET matches == Matches(results, matcher.threshold)
    IN  Append(history,
               [query_id |-> query_profile.id,
                database_size |-> Len(database_profiles),
                top_score |-> IF matches # <<>> THEN matches[1].similarity_score
                              ELSE 0])

\* self.match_history.append({...}) of match_against_database
RecordHistory(history, query_profile, database_profiles, results) ==
    Append(history,
           [query_id |-> query_profile.id,
            database_size |-> Len(database_profiles),
            top_score |-> IF results # <<>> THEN results[1].similarity_score ELSE 0])

\* matches[:top_n] if matches else [], with the slice left out
MatcherReturnAll(matches, top_n) == matches

\* matches[:top_n] if matches else []
MatcherReturn(matches, top_n) ==
    IF matches # <<>> THEN Take(matches, top_n) ELSE <<>>

\* DNAMatcher(threshold): __init__
NewMatcher(threshold) ==
    /\ ~matcher.built
    /\ matcher' = [built |-> TRUE, threshold |-> threshold, match_history |-> <<>>]
    /\ UNCHANGED <<profiles, encrypted_profiles, users, threads,
                   match_results, notifications, last, probe>>

MatchAgainstDatabase(query_profile, database_profiles, top_n) ==
    LET results == SortDesc(MatcherLoop(1, query_profile, database_profiles,
                                        matcher.threshold))
        matches == Matches(results, matcher.threshold)
    IN  /\ matcher.built
        /\ matcher' = [matcher EXCEPT
               !.match_history = RecordHistory(matcher.match_history, query_profile,
                                               database_profiles, results)]
        /\ last' = [NoCall EXCEPT !.op = "matcher", !.status = 200,
                       !.query_id = query_profile.id, !.query = query_profile,
                       !.threshold = matcher.threshold, !.top_n = top_n,
                       !.candidates = database_profiles,
                       !.kept = matches,
                       !.returned = MatcherReturn(matches, top_n),
                       !.matches_found = Len(matches),
                       !.seq = last.seq + 1]
        /\ UNCHANGED <<profiles, encrypted_profiles, users, threads,
                       match_results, notifications, probe>>

(***************************************************************************)
(* The ranking calls on a small store.  The store is what the server       *)
(* holds when the calls are made; the DNAMatcher object is built with the  *)
(* default threshold or with the 0.70 of demonstrate_matching.             *)
(***************************************************************************)
ProfileA == [id |-> <<"USA", 1>>, region |-> "USA", markers |-> ExampleQ]
ProfileB == [id |-> <<"USA", 2>>, region |-> "USA", markers |-> ExampleC]
\* the markers of ProfileA, from another region
ProfileC == [id |-> <<"IND", 1>>, region |-> "India", markers |-> ExampleQ]
\* the id of ProfileA again, from another region, one homozygous locus
ProfileD == [id |-> <<"USA", 1>>, region |-> "India",
             markers |-> ("D3S1358" :> <<14, 14>>)]

StoreProfiles == {ProfileA, ProfileB, ProfileC, ProfileD}

Stores == UNION {[1..k -> StoreProfiles] : k \in 0..MaxStore}

\* a crime scene sample that shares no allele with ProfileA
SampleNoOverlap == [id |-> <<"CRIME", 2>>, region |-> "Unknown",
                    markers |-> ("D5S818" :> <<13, 13>>)]

CrimeSamples ==
    {[id |-> <<"CRIME", 1>>, region |-> "Unknown", markers |-> ExampleQ],
     SampleNoOverlap}

QueryIds == {<<"USA", 1>>, <<"USA", 2>>, <<"NONE", 9>>}

Thresholds == {APP_DEFAULT, 12000}

MatcherThresholds == {MATCHER_DEFAULT, 7000}

MatcherQueries == {ProfileA, SampleNoOverlap}

TopNs == {-1, 0, 1, DEFAULT_TOP_N}

InitStore ==
    /\ profiles \in Stores
    /\ encrypted_profiles = <<>>
    /\ users = <<>>
    /\ threads = NoThreads
    /\ match_results = <<>>
    /\ notifications = <<>>
    /\ matcher = NoMatcher
    /\ last = NoCall
    /\ probe = NoProbe

\* The web server never builds a DNAMatcher (src/app.py does not import
\* src/matcher.py): a behaviour is one of the server's handlers or one of a
\* DNAMatcher object's calls.
MatchOver(calls, ids, thresholds) ==
    \E query_id \in ids, threshold \in thresholds, filter_region \in BOOLEAN :
        /\ ~matcher.built
        /\ last.seq < calls
        /\ MatchProfiles(query_id, threshold, filter_region)

CrimeSceneOver(calls, samples) ==
    \E crime_sample \in samples :
        /\ ~matcher.built
        /\ last.seq < calls
        /\ CrimeSceneMatch(crime_sample)

MatcherCallOver(calls, queries, sizes) ==
    \E query_profile \in queries, database_profiles \in {profiles, <<>>},
       top_n \in sizes :
        /\ last.seq < calls
        /\ MatchAgainstDatabase(query_profile, database_profiles, top_n)

Construct ==
    \E threshold \in MatcherThresholds :
        /\ last.op = "none"
        /\ NewMatcher(threshold)

Match == MatchOver(MaxCalls, QueryIds, Thresholds)

CrimeScene == CrimeSceneOver(MaxCalls, CrimeSamples)

MatcherCall == MatcherCallOver(MaxCalls, MatcherQueries, TopNs)

Next == Construct \/ Match \/ CrimeScene \/ MatcherCall

Spec == InitStore /\ [][Next]_vars

(***************************************************************************)
(* The ranking calls on a database loaded at startup                       *)
(* (load_database_from_file) that holds more profiles than one response    *)
(* lists.  Profile i of database (n, k) is SUSPECT_i; regions alternate    *)
(* and every k-th profile has the markers ExampleC, the others ExampleQ.   *)
(***************************************************************************)
BulkProfile(i, k) ==
    [id |-> <<"SUSPECT", i>>,
     region |-> IF i % 2 = 0 THEN "USA" ELSE "India",
     markers |-> IF i % k = 0 THEN ExampleC ELSE ExampleQ]

BulkDatabases ==
    {[i \in 1..n |-> BulkProfile(i, k)] : n \in 0..(TOP_SLICE + BulkExtra), k \in 1..3}

\* a sample that scores 6/7 = 0.8571 against the markers ExampleC
SampleNear == [id |-> <<"CRIME", 3>>, region |-> "Unknown",
               markers |-> ("D3S1358" :> <<14, 14>>) @@ ("D5S818" :> <<11, 13>>)]

BulkSamples ==
    {[id |-> <<"CRIME", 1>>, region |-> "Unknown", markers |-> ExampleQ],
     [id |-> <<"CRIME", 4>>, region |-> "Unknown", markers |-> ExampleC],
     SampleNear}

BulkQueryIds == {<<"SUSPECT", 1>>, <<"SUSPECT", 2>>, <<"SUSPECT", 3>>, <<"NONE", 9>>}

BulkThresholds == {APP_DEFAULT, CRIME_PROBABLE, 12000}

BulkTopNs == {0, 3, DEFAULT_TOP_N}

InitBulk ==
    /\ profiles \in BulkDatabases
    /\ encrypted_profiles = <<>>
    /\ users = <<>>
    /\ threads = NoThreads
    /\ match_results = <<>>
    /\ notifications = <<>>
    /\ matcher = NoMatcher
    /\ last = NoCall
    /\ probe = NoProbe

BulkMatch == MatchOver(BulkCalls, BulkQueryIds, BulkThresholds)

BulkCrimeScene == CrimeSceneOver(BulkCalls, BulkSamples)

BulkMatcherCall == MatcherCallOver(BulkCalls, BulkSamples, BulkTopNs)

NextBulk == Construct \/ BulkMatch \/ BulkCrimeScene \/ BulkMatcherCall

SpecBulk == InitBulk /\ [][NextBulk]_vars

(***************************************************************************)
(* Properties of the ranking calls.                                        *)
(***************************************************************************)
\* the call that last returned was a ranking call that ran to its end
Ranked(ops) == last.status = 200 /\ last.op \in ops

\* the candidate at position i of the collection is among the results
InResults(results, i) == \E k \in DOMAIN results : results[k].idx = i

\* the score the call gives the candidate at position i
CandidateScore(i) ==
    LET candidate == last.candidates[i]
    IN  IF last.op = "matcher" THEN MatcherTanabe(last.query, candidate).score
        ELSE IF last.op = "match" /\ candidate.id = last.query_id THEN SELF_SCORE
        ELSE AppTanabe(last.query, candidate)

\* C6: in a /match or match_against_database call a candidate whose id is not
\* the query's is among the kept results iff (the region filter is off or its
\* region is the query's) and its score is at least the threshold.
C6_KeptIffRegionAndThreshold ==
    Ranked({"match", "matcher"}) =>
        \A i \in DOMAIN last.candidates :
            last.candidates[i].id # last.query_id =>
                (InResults(last.kept, i) <=>
                    /\ ~last.filter_region
                       \/ last.candidates[i].region = last.query.region
                    /\ CandidateScore(i) >= last.threshold)

\* with the region filter on, a candidate with the query's markers (score 1.0)
\* from another region was left out
C6_Witness ==
    /\ Ranked({"match"})
    /\ last.filter_region
    /\ \E i \in DOMAIN last.candidates :
          /\ last.candidates[i].id # last.query_id
          /\ last.candidates[i].markers = last.query.markers
          /\ last.candidates[i].region # last.query.region
          /\ CandidateScore(i) = SCALE
          /\ last.threshold <= SCALE
          /\ ~InResults(last.kept, i)

\* results in descending score order, ties in the order of the collection
Ordered(results) ==
    \A i \in DOMAIN results : \A j \in DOMAIN results :
        i < j =>
            \/ ScoreOf(results[i]) > ScoreOf(results[j])
            \/ /\ ScoreOf(results[i]) = ScoreOf(results[j])
               /\ results[i].idx < results[j].idx

\* C7: the results of every ranking call are in descending score order and
\* results with equal scores keep the order of the candidate collection; this
\* order is total, so equal inputs give the same sequence.
C7_SortedStable ==
    Ranked({"match", "crime", "matcher"}) =>
        /\ Ordered(last.kept)
        /\ Ordered(last.returned)

\* a returned list in which the sort moved a later candidate ahead of an
\* earlier one and which holds two results with equal scores
C7_Witness ==
    /\ Ranked({"match", "crime", "matcher"})
    /\ \E i \in DOMAIN last.returned : \E j \in DOMAIN last.returned :
          i < j /\ last.returned[i].idx > last.returned[j].idx
    /\ \E i \in DOMAIN last.returned : \E j \in DOMAIN last.returned :
          i < j /\ ScoreOf(last.returned[i]) = ScoreOf(last.returned[j])

\* the number of candidates the call scores at or over its threshold
MeetingThreshold ==
    Cardinality({i \in DOMAIN last.candidates : CandidateScore(i) >= last.threshold})

\* the number of candidates that meet the threshold or, in a /match call,
\* have the query's id
MeetingThresholdOrSelf ==
    Cardinality({i \in DOMAIN last.candidates :
        \/ CandidateScore(i) >= last.threshold
        \/ last.op = "match" /\ last.candidates[i].id = last.query_id})

\* C8 as claimed: the returned list is no longer than top-N and no longer
\* than the number of candidates whose score meets the threshold.
C8_AtMostTopNAndMeeting ==
    Ranked({"match", "matcher"}) =>
        /\ Len(last.returned) <= last.top_n
        /\ Len(last.returned) <= MeetingThreshold

\* C8 as amended: the returned list is no longer than top-N when top-N >= 0
\* (a negative top_n only drops that many matches from the end) and no
\* longer than the number of candidates that meet the threshold or, in a
\* /match call, have the query's id (kept with score 1.0 under any threshold).
C8_AtMostTopNAndMeetingOrSelf ==
    Ranked({"match", "matcher"}) =>
        /\ last.top_n >= 0 => Len(last.returned) <= last.top_n
        /\ Len(last.returned) <= MeetingThresholdOrSelf

\* more candidates met the threshold than top-N and the list was cut to top-N
C8_Witness ==
    /\ Ranked({"matcher"})
    /\ last.top_n > 0
    /\ MeetingThreshold > last.top_n
    /\ Len(last.returned) = last.top_n

\* the number of results with the given status
CountStatus(results, status) ==
    Cardinality({i \in DOMAIN results : results[i].status = status})

\* C9: the counts a call reports and records are taken over all its results,
\* not over the 10 it returns: matches_found is the number of results at or
\* over the threshold, definite_matches and probable_matches the numbers of
\* results with that status, and a count over 10 exceeds the returned length.
C9_CountsOverAllResults ==
    /\ Ranked({"match"}) =>
          /\ last.matches_found = CountAtLeast(last.kept, last.threshold)
          /\ match_results[Len(match_results)].matches_found = last.matches_found
          /\ CountAtLeast(last.kept, last.threshold) > TOP_SLICE =>
                last.matches_found > Len(last.returned)
    /\ Ranked({"crime"}) =>
          /\ last.definite_matches = CountStatus(last.kept, "DEFINITE MATCH")
          /\ last.probable_matches = CountStatus(last.kept, "PROBABLE MATCH")
          /\ match_results[Len(match_results)].definite_matches = last.definite_matches
          /\ match_results[Len(match_results)].probable_matches = last.probable_matches
          /\ CountStatus(last.kept, "DEFINITE MATCH") > TOP_SLICE =>
                last.definite_matches > Len(last.returned)
          /\ CountStatus(last.kept, "PROBABLE MATCH") > TOP_SLICE =>
                last.probable_matches > Len(last.returned)

\* a /match call in which more than 10 candidates qualified: 10 are returned
\* and the count is larger
C9_Witness ==
    /\ Ranked({"match"})
    /\ Len(last.kept) > TOP_SLICE
    /\ Len(last.returned) = TOP_SLICE
    /\ last.matches_found > TOP_SLICE

\* log2 is log1 with one entry appended
OneAppended(log1, log2) ==
    /\ Len(log2) = Len(log1) + 1
    /\ SubSeq(log2, 1, Len(log1)) = log1

\* C10: every ranking call appends exactly one entry to its history log
\* (match_history for match_against_database, match_results for /match and
\* the crime scene call) and leaves the entries already there as they were.
C10_OneEntryPerCall ==
    [][(last'.seq = last.seq + 1 /\ last'.status = 200) =>
          IF last'.op = "matcher"
          THEN /\ OneAppended(matcher.match_history, matcher'.match_history)
               /\ match_results' = match_results
          ELSE /\ OneAppended(match_results, match_results')
               /\ matcher' = matcher]_vars

\* a second call of match_against_database, on an empty collection, has
\* added the second entry
C10_Witness ==
    /\ Ranked({"matcher"})
    /\ last.candidates = <<>>
    /\ last.returned = <<>>
    /\ Len(matcher.match_history) = 2
    /\ matcher.match_history[2].database_size = 0

(***************************************************************************)
(* Long runs of one call on the logs.  A behaviour is a run of one kind of *)
(* call on one small store, each call with the same arguments: /match      *)
(* requests, calls of match_against_database on one DNAMatcher, or direct  *)
(* calls of add_notification whose message is the number of the call.      *)
(***************************************************************************)
LogCalls == 25       \* calls made in one long run

LogQueryId == <<"USA", 1>>

LogMatch ==
    /\ ~matcher.built
    /\ last.op \in {"none", "match"}
    /\ last.seq < LogCalls
    /\ MatchProfiles(LogQueryId, APP_DEFAULT, FALSE)

LogMatcherCall ==
    /\ last.seq < LogCalls
    /\ MatchAgainstDatabase(ProfileA, profiles, DEFAULT_TOP_N)

\* add_notification(title, message), called on its own
Notify ==
    /\ ~matcher.built
    /\ last.op \in {"none", "notify"}
    /\ last.seq < LogCalls
    /\ notifications' = AddNotification(notifications, "note", last.seq + 1)
    /\ last' = [NoCall EXCEPT !.op = "notify", !.status = 200,
                   !.seq = last.seq + 1]
    /\ UNCHANGED <<profiles, encrypted_profiles, users, threads,
                   match_results, matcher, probe>>

NextLog == Construct \/ LogMatch \/ LogMatcherCall \/ Notify

SpecLog == InitStore /\ [][NextLog]_vars

\* C11: after any number of ranking calls the match history log
\* (DNAMatcher.match_history, DATABASE['match_results']) holds at most 20
\* entries.
C11_HistoryAtMost20 ==
    /\ Len(match_results) <= 20
    /\ Len(matcher.match_history) <= 20

Min(a, b) == IF a <= b THEN a ELSE b

\* C12: after n appends made one after the other the notification log holds
\* exactly the min(n, 20) entries appended last, in the order they were
\* appended, the newest at the end: entry i of the log is append number
\* n - min(n, 20) + i.
C12_KeepsNewestInOrder ==
    last.op = "notify" =>
        LET n == last.seq
            kept == Min(n, MAX_NOTIFICATIONS)
        IN  /\ Len(notifications) = kept
            /\ \A i \in 1..kept : notifications[i].message = n - kept + i

\* 25 appends were made: the log holds appends 6 to 25 and the 5 oldest
\* are gone
C12_Witness ==
    /\ last.op = "notify"
    /\ last.seq = 25
    /\ Len(notifications) = MAX_NOTIFICATIONS
    /\ notifications[1].message = 6
    /\ notifications[MAX_NOTIFICATIONS].message = 25

\* C13: in a /match call with the region filter on, every candidate whose id
\* is the query's is kept, with score 1.0, whatever region its record
\* carries, a second stored profile with that id from another region
\* included.
C13_SelfExemptFromRegionFilter ==
    (Ranked({"match"}) /\ last.filter_region) =>
        \A i \in DOMAIN last.candidates :
            last.candidates[i].id = last.query_id =>
                \E k \in DOMAIN last.kept :
                    /\ last.kept[k].idx = i
                    /\ last.kept[k].score = SELF_SCORE

\* the step is a /match or crime scene call that ran to its end
RankingRun ==
    /\ last'.seq = last.seq + 1
    /\ last'.status = 200
    /\ last'.op \in {"match", "crime"}

\* C14 as stated: a /match or crime scene run with a definite match among
\* its results, or with a result scoring at or over the threshold (0.80 in
\* the crime scene call), adds one match notification, and a run with
\* neither adds none.
C14_NotifiesOnDefiniteOrThreshold ==
    [][RankingRun =>
          IF \/ CountStatus(last'.kept, "DEFINITE MATCH") > 0
             \/ CountAtLeast(last'.kept, last'.threshold) > 0
          THEN OneAppended(notifications, notifications')
          ELSE notifications' = notifications]_vars

\* C14, amended: a /match run adds one match notification iff its
\* matches_found (results scoring at or over the threshold) is over 0; a
\* crime scene run adds one iff its definite-match count is over 0, and none
\* when its matches are probable ones only.
C14_NotifiesPerHandler ==
    [][RankingRun =>
          IF \/ last'.op = "match" /\ last'.matches_found > 0
             \/ last'.op = "crime" /\ last'.definite_matches > 0
          THEN OneAppended(notifications, notifications')
          ELSE notifications' = notifications]_vars

\* a crime scene run found probable matches and no definite one, and added no
\* notification
C14_Witness ==
    /\ Ranked({"crime"})
    /\ last.definite_matches = 0
    /\ last.probable_matches > 0
    /\ last.seq = 1
    /\ notifications = <<>>

\* C16: a /match call whose query id is the id of no stored profile answers
\* not found (404), scores no candidate and leaves match_results and the
\* notification log as they were.
C16_UnknownQueryLeavesLogs ==
    [][(/\ last'.seq = last.seq + 1
        /\ last'.op = "match"
        /\ \A i \in DOMAIN profiles : profiles[i].id # last'.query_id) =>
          /\ last'.status = 404
          /\ last'.kept = <<>>
          /\ last'.returned = <<>>
          /\ match_results' = match_results
          /\ notifications' = notifications]_vars

\* a /match call for an unknown id on a store that holds profiles, after a
\* call that was recorded: the one record and the one notification are
\* still all there is
C16_Witness ==
    /\ last.op = "match"
    /\ last.status = 404
    /\ last.seq = 2
    /\ profiles # <<>>
    /\ \A i \in DOMAIN profiles : profiles[i].id # last.query_id
    /\ Len(match_results) = 1
    /\ Len(notifications) = 1

\* C17: a crime scene call or a match_against_database call on an empty
\* candidate collection does not fail: it returns an empty result list, all
\* its counts are zero, and it records its one history entry.
C17_EmptyCollection ==
    [][(/\ last'.seq = last.seq + 1
        /\ last'.op \in {"crime", "matcher"}
        /\ last'.candidates = <<>>) =>
          /\ last'.status = 200
          /\ last'.kept = <<>>
          /\ last'.returned = <<>>
          /\ last'.matches_found = 0
          /\ last'.definite_matches = 0
          /\ last'.probable_matches = 0
          /\ IF last'.op = "matcher"
             THEN /\ OneAppended(matcher.match_history, matcher'.match_history)
                  /\ LET entry == matcher'.match_history[Len(matcher'.match_history)]
                     IN  entry.database_size = 0 /\ entry.top_score = 0
             ELSE /\ OneAppended(match_results, match_results')
                  /\ LET entry == match_results'[Len(match_results')]
                     IN  /\ entry.total_profiles_searched = 0
                         /\ entry.definite_matches = 0
                         /\ entry.probable_matches = 0
                         /\ entry.top_10_matches = <<>>]_vars

\* a crime scene call on the empty store returned no result and left its
\* record
C17_Witness ==
    /\ Ranked({"crime"})
    /\ profiles = <<>>
    /\ last.returned = <<>>
    /\ Len(match_results) = last.seq
    /\ match_results[Len(match_results)].total_profiles_searched = 0

\* the highest score the last call gave a candidate, 0 when there is none
TopCandidateScore ==
    IF last.candidates = <<>> THEN 0
    ELSE LET scores == {CandidateScore(i) : i \in DOMAIN last.candidates}
         IN  CHOOSE s \in scores : \A t \in scores : s >= t

\* C20: the history entry of a match_against_database call records as
\* top_score the highest score over all candidates, those under the
\* threshold included, and 0.0 when there is no candidate; when no candidate
\* shares a locus with the query and the threshold is over 0 the returned
\* list is empty and the recorded top_score is 0.0.
C20_TopScoreOverAllCandidates ==
    Ranked({"matcher"}) =>
        LET entry == matcher.match_history[Len(matcher.match_history)]
        IN  /\ entry.top_score = TopCandidateScore
            /\ (/\ last.threshold > 0
                /\ \A i \in DOMAIN last.candidates :
                       CommonLoci(last.query, last.candidates[i]) = {}) =>
                   /\ last.returned = <<>>
                   /\ entry.top_score = 0

\* no candidate met the threshold, so nothing was returned, and the entry
\* records the best score under the threshold
C20_Witness ==
    /\ Ranked({"matcher"})
    /\ last.candidates # <<>>
    /\ last.returned = <<>>
    /\ LET entry == matcher.match_history[Len(matcher.match_history)]
       IN  /\ entry.top_score > 0
           /\ entry.top_score < last.threshold
           /\ entry.top_score = TopCandidateScore

(***************************************************************************)
(* The handlers that fill the profile store: generate_profile (POST        *)
(* /generate), upload_profile (POST /upload) and import_database (POST     *)
(* /api/import-database).  A request body is a record with the keys the    *)
(* JSON object has: a profile without 'markers' is a record without that   *)
(* field.  The database file the handlers write is read at startup only    *)
(* and is left out.                                                        *)
(***************************************************************************)
ENCRYPTION_KEY == "forensic_key_2025"

\* hashlib.sha256(f"{self.key}:{locus}:{a}".encode()).hexdigest(): the digest
\* is named by the text it is taken of
Sha256(key, locus, a) == <<"sha256", key, locus, a>>

\* DNAEncryption.encrypt_profile
EncryptProfile(profile) ==
    [id |-> profile.id,
     encrypted_markers |->
         [locus \in DOMAIN profile.markers |->
             [k \in DOMAIN profile.markers[locus] |->
                 Sha256(ENCRYPTION_KEY, locus, profile.markers[locus][k])]],
     is_encrypted |-> TRUE,
     region |-> IF "region" \in DOMAIN profile THEN profile.region ELSE "USA"]

\* the loop of generate_profile from its i-th round on; draws[i + 1] is the
\* marker mapping the random draws of round i give, db the store, the
\* encrypted store, the notification log and the ids generated so far
RECURSIVE GenerateLoop(_, _, _, _, _)
GenerateLoop(i, count, region, draws, db) ==
    IF i >= count THEN db
    ELSE LET profile_id == <<region, Len(db.profiles) + i + 1>>
             profile == [id |-> profile_id, region |-> region,
                         markers |-> draws[i + 1]]
         IN  GenerateLoop(i + 1, count, region, draws,
                 [profiles |-> Append(db.profiles, profile),
                  encrypted_profiles |->
                      Append(db.encrypted_profiles, EncryptProfile(profile)),
                  notifications |->
                      AddNotification(db.notifications, "Profile Generated",
                                      profile_id),
                  profiles_generated |-> Append(db.profiles_generated, profile_id)])

GenerateProfile(count, region, draws) ==
    LET db == GenerateLoop(0, count, region, draws,
                  [profiles |-> profiles,
                   encrypted_profiles |-> encrypted_profiles,
                   notifications |-> notifications,
                   profiles_generated |-> <<>>])
    IN  /\ profiles' = db.profiles
        /\ encrypted_profiles' = db.encrypted_profiles
        /\ notifications' = db.notifications
        /\ last' = [NoCall EXCEPT !.op = "generate", !.status = 200,
                       !.returned = db.profiles_generated,
                       !.seq = last.seq + 1]
        /\ UNCHANGED <<users, threads, match_results, matcher, probe>>

\* profile_data with region 'USA' if it came without one
WithRegion(profile_data) ==
    IF "region" \in DOMAIN profile_data THEN profile_data
    ELSE [f \in DOMAIN profile_data \cup {"region"} |->
             IF f = "region" THEN "USA" ELSE profile_data[f]]

UploadProfile(profile_data) ==
    IF \/ "id" \notin DOMAIN profile_data
       \/ "markers" \notin DOMAIN profile_data
       \/ \E locus \in DOMAIN profile_data.markers :
              Len(profile_data.markers[locus]) # 2
    THEN /\ last' = [NoCall EXCEPT !.op = "upload", !.status = 400,
                        !.query = profile_data, !.seq = last.seq + 1]
         /\ UNCHANGED <<profiles, encrypted_profiles, users, threads,
                        match_results, notifications, matcher, probe>>
    ELSE LET stored == WithRegion(profile_data)
         IN  /\ profiles' = Append(profiles, stored)
             /\ encrypted_profiles' =
                    Append(encrypted_profiles, EncryptProfile(stored))
             /\ notifications' =
                    AddNotification(notifications, "Profile Uploaded", stored.id)
             /\ last' = [NoCall EXCEPT !.op = "upload", !.status = 200,
                            !.query_id = stored.id, !.query = stored,
                            !.seq = last.seq + 1]
             /\ UNCHANGED <<users, threads, match_results, matcher, probe>>

\* import_database, given the object parsed from the uploaded file
ImportDatabase(data) ==
    LET imported == IF "profiles" \in DOMAIN data THEN data.profiles ELSE <<>>
    IN  /\ profiles' = imported
        /\ notifications' =
               AddNotification(notifications, "DATABASE IMPORTED", Len(imported))
        /\ last' = [NoCall EXCEPT !.op = "import", !.status = 200,
                       !.candidates = imported, !.seq = last.seq + 1]
        /\ UNCHANGED <<encrypted_profiles, users, threads, match_results,
                       matcher, probe>>

(***************************************************************************)
(* The server from its start: the store is what load_database_from_file    *)
(* read (nothing, when there is no database file), and requests to         *)
(* generate, upload, import, /match and the crime scene call follow, some  *)
(* with profiles that lack a field or hold other than 2 alleles at a       *)
(* locus.                                                                  *)
(***************************************************************************)
IngestCalls == 2     \* requests made after the start

\* three alleles at a locus
ProfileThree == [id |-> <<"BAD", 3>>, region |-> "USA",
                 markers |-> ("D3S1358" :> <<14, 15, 16>>)]
\* one allele at a locus
ProfileOne == [id |-> <<"BAD", 1>>, region |-> "USA",
               markers |-> ("D3S1358" :> <<14>>)]

StartupFiles == {<<>>, <<ProfileA>>}

UploadBodies ==
    {ProfileB,
     [id |-> <<"UP", 1>>, markers |-> ExampleQ],
     ProfileThree,
     ProfileOne,
     [id |-> <<"BAD", 0>>, region |-> "USA"],
     [markers |-> ExampleQ]}

IngestSamples ==
    {[id |-> <<"CRIME", 1>>, region |-> "Unknown", markers |-> ExampleQ],
     [markers |-> ExampleC],
     [id |-> <<"CRIME", 4>>, markers |-> ("D3S1358" :> <<14, 15, 16>>)],
     [id |-> <<"CRIME", 5>>, region |-> "Unknown"]}

ImportFiles ==
    {[profiles |-> <<ProfileA, ProfileB>>],
     [profiles |-> <<ProfileA, ProfileThree>>],
     [version |-> "2.0"]}

IngestQueryIds == {<<"USA", 1>>, <<"BAD", 3>>}

GenerateCounts == {1, 2}

GenerateRegions == {"USA", "India"}

\* marker mappings the random draws of generate_profile can give: at every
\* locus sorted([allele1, allele2])
GeneratedMarkers == {ExampleQ, ExampleC}

InitIngest ==
    /\ profiles \in StartupFiles
    /\ encrypted_profiles = <<>>
    /\ users = <<>>
    /\ threads = NoThreads
    /\ match_results = <<>>
    /\ notifications = <<>>
    /\ matcher = NoMatcher
    /\ last = NoCall
    /\ probe = NoProbe

Generate ==
    \E count \in GenerateCounts, region \in GenerateRegions :
        \E draws \in [1..count -> GeneratedMarkers] :
            /\ last.seq < IngestCalls
            /\ GenerateProfile(count, region, draws)

Upload ==
    \E profile_data \in UploadBodies :
        /\ last.seq < IngestCalls
        /\ UploadProfile(profile_data)

Import ==
    \E data \in ImportFiles :
        /\ last.seq < IngestCalls
        /\ ImportDatabase(data)

IngestCrimeScene ==
    \E crime_sample \in IngestSamples :
        /\ last.seq < IngestCalls
        /\ CrimeSceneMatch(crime_sample)

IngestMatch ==
    \E query_id \in IngestQueryIds :
        /\ last.seq < IngestCalls
        /\ MatchProfiles(query_id, APP_DEFAULT, FALSE)

NextIngest == Generate \/ Upload \/ Import \/ IngestCrimeScene \/ IngestMatch

SpecIngest == InitIngest /\ [][NextIngest]_vars

\* the profile lacks a marker mapping, or a locus of it maps to other than
\* exactly 2 alleles
Malformed(profile) ==
    \/ "markers" \notin DOMAIN profile
    \/ \E locus \in DOMAIN profile.markers : Len(profile.markers[locus]) # 2

\* C15: a profile that lacks a marker mapping, or in which a locus maps to
\* other than exactly 2 alleles, is rejected with an error where it enters
\* (upload, /match, the crime scene call) before any score is computed, and
\* the profile store, the encrypted store and the history log stay as they
\* were.
C15_MalformedRejected ==
    [][(/\ last'.seq = last.seq + 1
        /\ last'.op \in {"upload", "match", "crime"}
        /\ Malformed(last'.query)) =>
          /\ last'.status = 400
          /\ last'.kept = <<>>
          /\ profiles' = profiles
          /\ encrypted_profiles' = encrypted_profiles
          /\ match_results' = match_results]_vars

\* C19: after any sequence of generate, upload, import-database and
\* load-from-file every stored profile has exactly 2 allele values at every
\* locus.
C19_StoredProfilesHaveTwoAlleles ==
    \A i \in DOMAIN profiles :
        /\ "markers" \in DOMAIN profiles[i]
        /\ \A locus \in DOMAIN profiles[i].markers :
               Len(profiles[i].markers[locus]) = 2

(***************************************************************************)
(* add_notification under the threaded server (app.run serves every        *)
(* request in a thread of its own): the function takes no lock, so         *)
(* requests that reach it together interleave between its statements.      *)
(* The statements are: build the entry, reading the length of the log for  *)
(* its id; append it; compare the length with 20; pop the entry at index   *)
(* 0.  A request's message is the pair of its thread and the number of     *)
(* its call.  The log at the start is empty or holds the 20 entries that   *)
(* 20 appends made one after the other leave.                              *)
(***************************************************************************)
NumThreads == 2      \* requests in flight at once
ThreadCalls == 2     \* calls of add_notification one thread makes

Threads == 1..NumThreads

NoNotification == [id |-> -1, title |-> "none", message |-> <<0, 0>>]

IdleThread == [pc |-> "idle", notification |-> NoNotification, calls |-> 0]

FullLog ==
    [i \in 1..MAX_NOTIFICATIONS |->
        [id |-> i - 1, title |-> "note", message |-> <<0, i>>]]

InitConcurrent ==
    /\ profiles = <<>>
    /\ encrypted_profiles = <<>>
    /\ users = <<>>
    /\ threads = [t \in Threads |-> IdleThread]
    /\ match_results = <<>>
    /\ notifications \in {<<>>, FullLog}
    /\ matcher = NoMatcher
    /\ last = NoCall
    /\ probe = NoProbe

\* notification = {'id': len(DATABASE['notifications']), ...}
BuildNotification(t) ==
    /\ threads[t].pc = "idle"
    /\ threads[t].calls < ThreadCalls
    /\ threads' = [threads EXCEPT ![t] =
           [pc |-> "built",
            notification |-> [id |-> Len(notifications), title |-> "note",
                              message |-> <<t, threads[t].calls + 1>>],
            calls |-> threads[t].calls + 1]]
    /\ UNCHANGED <<profiles, encrypted_profiles, users, match_results,
                   notifications, matcher, last, probe>>

\* DATABASE['notifications'].append(notification)
AppendNotification(t) ==
    /\ threads[t].pc = "built"
    /\ notifications' = Append(notifications, threads[t].notification)
    /\ threads' = [threads EXCEPT ![t].pc = "appended"]
    /\ UNCHANGED <<profiles, encrypted_profiles, users, match_results,
                   matcher, last, probe>>

\* if len(DATABASE['notifications']) > 20:
CheckLength(t) ==
    /\ threads[t].pc = "appended"
    /\ threads' = [threads EXCEPT ![t].pc =
           IF Len(notifications) > MAX_NOTIFICATIONS THEN "full" ELSE "idle"]
    /\ UNCHANGED <<profiles, encrypted_profiles, users, match_results,
                   notifications, matcher, last, probe>>

\* DATABASE['notifications'].pop(0)
PopOldest(t) ==
    /\ threads[t].pc = "full"
    /\ notifications' = Tail(notifications)
    /\ threads' = [threads EXCEPT ![t].pc = "idle"]
    /\ UNCHANGED <<profiles, encrypted_profiles, users, match_results,
                   matcher, last, probe>>

Build == \E t \in Threads : BuildNotification(t)

AppendEntry == \E t \in Threads : AppendNotification(t)

Check == \E t \in Threads : CheckLength(t)

Pop == \E t \in Threads : PopOldest(t)

NextConcurrent == Build \/ AppendEntry \/ Check \/ Pop

SpecConcurrent == InitConcurrent /\ [][NextConcurrent]_vars

\* C18: under any interleaving of concurrent add_notification calls the log
\* never holds more than 20 entries, and the 'id' numbers of its entries are
\* distinct and increase in the order the entries were appended.
C18_BoundedWithIncreasingIds ==
    /\ Len(notifications) <= MAX_NOTIFICATIONS
    /\ \A i \in DOMAIN notifications : \A j \in DOMAIN notifications :
           i < j => notifications[i].id < notifications[j].id

\* C21: app.calculate_tanabe_score and DNAMatcher.calculate_tanabe_score
\* return the same score for every pair of profiles that both hold a marker
\* mapping, in either order of the pair: homozygous loci, loci only one
\* profile holds and the pair with no common locus included.
C21_ScorersAgree ==
    probe.op = "score" =>
        /\ probe.app_ab = probe.matcher_ab
        /\ probe.app_ba = probe.matcher_ba

\* a pair with a homozygous locus and a locus only the first profile holds,
\* whose score is neither 0 nor 1 and is not a whole number of
\* ten-thousandths before rounding
C21_Witness ==
    /\ probe.op = "score"
    /\ \E l \in DOMAIN probe.p1.markers :
           /\ l \in DOMAIN probe.p2.markers
           /\ probe.p1.markers[l][1] = probe.p1.markers[l][2]
    /\ \E l \in DOMAIN probe.p1.markers : l \notin DOMAIN probe.p2.markers
    /\ probe.app_ab > 0
    /\ probe.app_ab < SCALE
    /\ (2 * SharedSum(probe.p1, probe.p2) * SCALE) % TotalSum(probe.p1, probe.p2) # 0
    /\ probe.matcher_ab = probe.app_ab

(***************************************************************************)
(* The store filled by /generate and /upload requests alone, from what     *)
(* load_database_from_file read at the start.                              *)
(***************************************************************************)
NextFill == Generate \/ Upload

SpecFill == InitIngest /\ [][NextFill]_vars

\* C22: after any sequence of /generate calls and uploads no two profiles of
\* the store have the same id; the ids <region>_<len(profiles)+i+1> given
\* within and across the generate batches of one region never repeat.
C22_StoredIdsDistinct ==
    \A i \in DOMAIN profiles : \A j \in DOMAIN profiles :
        i # j => profiles[i].id # profiles[j].id

\* C23: after any sequence of generate, upload, import-database and
\* load-from-file DATABASE['encrypted_profiles'] holds exactly one entry for
\* every entry of DATABASE['profiles'], in the same order and with the same
\* ids.
C23_EncryptedMirrorsProfiles ==
    /\ Len(encrypted_profiles) = Len(profiles)
    /\ \A i \in DOMAIN profiles : encrypted_profiles[i].id = profiles[i].id

(***************************************************************************)
(* register_user under the threaded server: POST /register calls it with   *)
(* the email of the request, and it takes no lock.  Its statements are:    *)
(* look the email up (find_user_by_email, which compares lower-cased       *)
(* emails) and return an error if it is there; build the user, reading     *)
(* the length of the user list for its id; append the user.                *)
(***************************************************************************)
RegisterCalls == 2   \* calls of register_user one thread makes

Emails == {"a@x.com", "A@X.com", "b@x.com"}

\* str.lower() on the emails of the model
Lower(email) == IF email = "A@X.com" THEN "a@x.com" ELSE email

NoUser == [id |-> 0, email |-> "none"]

IdleRegistration ==
    [pc |-> "idle", email |-> "none", user |-> NoUser, calls |-> 0,
     result |-> "none"]

\* find_user_by_email(email) is not None
EmailRegistered(email) ==
    \E i \in DOMAIN users : Lower(users[i].email) = Lower(email)

InitRegister ==
    /\ profiles = <<>>
    /\ encrypted_profiles = <<>>
    /\ users = <<>>
    /\ threads = [t \in Threads |-> IdleRegistration]
    /\ match_results = <<>>
    /\ notifications = <<>>
    /\ matcher = NoMatcher
    /\ last = NoCall
    /\ probe = NoProbe

\* if find_user_by_email(email): return {'success': False, ...}
FindUser(t, email) ==
    /\ threads[t].pc = "idle"
    /\ threads[t].calls < RegisterCalls
    /\ threads' = [threads EXCEPT ![t] =
           [pc |-> IF EmailRegistered(email) THEN "idle" ELSE "checked",
            email |-> email, user |-> NoUser,
            calls |-> threads[t].calls + 1,
            result |-> IF EmailRegistered(email) THEN "error" ELSE "none"]]
    /\ UNCHANGED <<profiles, encrypted_profiles, users, match_results,
                   notifications, matcher, last, probe>>

\* user = {'id': len(DATABASE['users']) + 1, 'email': email, ...}
BuildUser(t) ==
    /\ threads[t].pc = "checked"
    /\ threads' = [threads EXCEPT ![t].pc = "built",
                                  ![t].user = [id |-> Len(users) + 1,
                                               email |-> threads[t].email]]
    /\ UNCHANGED <<profiles, encrypted_profiles, users, match_results,
                   notifications, matcher, last, probe>>

\* DATABASE['users'].append(user); return {'success': True, ...}
AppendUser(t) ==
    /\ threads[t].pc = "built"
    /\ users' = Append(users, threads[t].user)
    /\ threads' = [threads EXCEPT ![t].pc = "idle", ![t].result = "success"]
    /\ UNCHANGED <<profiles, encrypted_profiles, match_results,
                   notifications, matcher, last, probe>>

Find == \E t \in Threads, email \in Emails : FindUser(t, email)

BuildRegistration == \E t \in Threads : BuildUser(t)

AppendRegistration == \E t \in Threads : AppendUser(t)

NextRegister == Find \/ BuildRegistration \/ AppendRegistration

SpecRegister == InitRegister /\ [][NextRegister]_vars

\* C24: after any sequence and any interleaving of register_user calls no
\* two users of DATABASE['users'] have the same email, compared without
\* regard to case, and no two have the same id; a registration answered with
\* an error is one whose email is registered.
C24_UsersDistinct ==
    /\ \A i \in DOMAIN users : \A j \in DOMAIN users :
           i # j => /\ Lower(users[i].email) # Lower(users[j].email)
                    /\ users[i].id # users[j].id
    /\ \A t \in Threads :
           threads[t].result = "error" => EmailRegistered(threads[t].email)

=============================================================================
